---- MODULE Spec2Model ----
(***************************************************************************)
(* A model of diff_handler.py: the fenced-block extractor, the marker      *)
(* segmenter (parse_code_block), the positional merger (apply_diff) and    *)
(* the file reconciler (process_ai_output).                                *)
(*                                                                         *)
(* A text (a Python str) is a sequence of one-character strings, so that   *)
(* splitlines, strip, join and the fence pattern are computed character by *)
(* character and never taken to be inverse to one another.                 *)
(***************************************************************************)
EXTENDS Integers, Sequences, FiniteSets, TLC

VARIABLES
    pc,               \* position of the running call
    original_code,    \* apply_diff: first argument
    new_content,      \* apply_diff: second argument
    result_lines,     \* apply_diff: the local line list at the return
    result,           \* apply_diff: the returned text
    block_content,    \* parse_code_block: argument
    changes,          \* parse_code_block: returned list / process_ai_output: local
    ai_output,        \* process_ai_output: first argument
    files,            \* process_ai_output: second argument (a reference)
    files_in,         \* the value of the caller's map when the call was made
    heap,             \* dict objects by reference
    modified_files,   \* process_ai_output: local (a reference)
    code_blocks,      \* process_ai_output: local list of CodeBlock
    block_idx,        \* index of the block the for loop is at (0-based)
    change_idx,       \* index of the change the inner for loop is at (0-based)
    current_content,  \* process_ai_output: local
    returned          \* process_ai_output: the returned reference

vars == << pc, original_code, new_content, result_lines, result, block_content,
           changes, ai_output, files, files_in, heap, modified_files,
           code_blocks, block_idx, change_idx, current_content, returned >>

----------------------------------------------------------------------------
(* Bounds of the checked input spaces. *)

MaxOrigLen == 5
MaxSegLen == 3
MaxBodyLen == 6
MaxBlocks == 2

----------------------------------------------------------------------------
(* Characters and Python's str builtins. *)

LF == "\n"
CR == "\r"

\* The line boundaries of str.splitlines that occur in the modelled alphabet.
LineBreaks == {LF, CR}

\* The characters str.strip removes that occur in the modelled alphabet.
Whitespace == {" ", "\t", LF, CR}

\* The characters \w matches that occur in the modelled alphabet.
WordChars == {"A", "B", "C", "X", "L", "H", "W", "1", "2", "3",
              "a", "c", "d", "e", "f", "g", "h", "i", "l", "n", "o", "p",
              "r", "s", "t", "x", "y", "_"}

Min(a, b) == IF a < b THEN a ELSE b

Range(s) == {s[k] : k \in DOMAIN s}

Texts(alphabet, n) == UNION {[1..k -> alphabet] : k \in 0..n}

\* l[a:b] for 0 <= a <= b (Python clips the slice at len(l)).
Slice(l, a, b) == SubSeq(l, a + 1, Min(b, Len(l)))

\* str.splitlines(): "\r\n" is one boundary; no empty last line.
RECURSIVE SplitLinesFrom(_, _, _, _)
SplitLinesFrom(s, i, cur, acc) ==
    IF i > Len(s)
    THEN IF cur = << >> THEN acc ELSE Append(acc, cur)
    ELSE IF s[i] = CR /\ i < Len(s) /\ s[i + 1] = LF
    THEN SplitLinesFrom(s, i + 2, << >>, Append(acc, cur))
    ELSE IF s[i] \in LineBreaks
    THEN SplitLinesFrom(s, i + 1, << >>, Append(acc, cur))
    ELSE SplitLinesFrom(s, i + 1, Append(cur, s[i]), acc)

SplitLines(s) == SplitLinesFrom(s, 1, << >>, << >>)

\* '\n'.join(lines)
RECURSIVE Join(_)
Join(lines) ==
    IF lines = << >> THEN << >>
    ELSE IF Len(lines) = 1 THEN lines[1]
    ELSE lines[1] \o << LF >> \o Join(Tail(lines))

RECURSIVE LStrip(_)
LStrip(s) ==
    IF s # << >> /\ s[1] \in Whitespace THEN LStrip(Tail(s)) ELSE s

RECURSIVE RStrip(_)
RStrip(s) ==
    IF s # << >> /\ s[Len(s)] \in Whitespace
    THEN RStrip(SubSeq(s, 1, Len(s) - 1)) ELSE s

\* str.strip()
Strip(s) == RStrip(LStrip(s))

----------------------------------------------------------------------------
(* apply_diff *)

\* result_lines[a:b] = new  (slice assignment)
SliceAssignTruncating(l, a, b, new) == Slice(l, 0, a) \o new

SliceAssign(l, a, b, new) ==
    Slice(l, 0, a) \o new \o Slice(l, b, Len(l))

\* The inner for loop over j: whether some new_lines[j] is in the window at i.
RECURSIVE MatchFound(_, _, _, _)
MatchFound(original_lines, new_lines, i, j) ==
    IF j >= Len(new_lines) THEN FALSE
    ELSE IF new_lines[j + 1] \in Range(Slice(original_lines, i, i + Len(new_lines)))
    THEN TRUE
    ELSE MatchFound(original_lines, new_lines, i, j + 1)

\* A scan that keeps going and splices at the last matching index.
ScanLastMatch(original_lines, new_lines, i) ==
    LET later == {k \in i..(Len(original_lines) - 1) :
                     MatchFound(original_lines, new_lines, k, 0)}
    IN  IF later = {} THEN original_lines
        ELSE LET k == CHOOSE x \in later : \A y \in later : y <= x
             IN  SliceAssign(original_lines, k, k + Len(new_lines), new_lines)

\* The outer for loop over i, from index i on: splice at the first match, stop.
RECURSIVE ScanOriginal(_, _, _)
ScanOriginal(original_lines, new_lines, i) ==
    IF i >= Len(original_lines) THEN original_lines
    ELSE IF MatchFound(original_lines, new_lines, i, 0)
    THEN SliceAssign(original_lines, i, i + Len(new_lines), new_lines)
    ELSE ScanOriginal(original_lines, new_lines, i + 1)

apply_diff_lines(original, new) ==
    ScanOriginal(SplitLines(original), SplitLines(new), 0)

apply_diff(original, new) == Join(apply_diff_lines(original, new))

----------------------------------------------------------------------------
(* parse_code_block *)

ContextLines == 3

\* Common markers used by AI to indicate unchanged code
context_markers == {
    << "/", "/", " ", "e", "x", "i", "s", "t", "i", "n", "g", " ", "c", "o", "d", "e", ".", ".", "." >>,
    << "/", "/", " ", ".", ".", "." >>,
    << "#", " ", "e", "x", "i", "s", "t", "i", "n", "g", " ", "c", "o", "d", "e", ".", ".", "." >>,
    << "#", " ", ".", ".", "." >>,
    << ".", ".", "." >>,
    << "#", " ", "r", "e", "s", "t", " ", "o", "f", " ", "t", "h", "e", " ", "f", "i", "l", "e" >>,
    << "/", "/", " ", "r", "e", "s", "t", " ", "o", "f", " ", "t", "h", "e", " ", "f", "i", "l", "e" >> }

\* stripped = line.strip(); stripped in context_markers
IsMarker(line) == Strip(line) \in context_markers

\* ('replace', '\n'.join(current_section), 3)
Change(current_section) ==
    [action |-> "replace", content |-> Join(current_section), context |-> ContextLines]

ParseStart ==
    [changes |-> << >>, current_section |-> << >>, in_change_section |-> FALSE]

\* A loop body that closes a section at a marker but keeps its lines.
ParseLineKeeping(st, line) ==
    IF IsMarker(line)
    THEN IF st.in_change_section /\ st.current_section # << >>
         THEN [st EXCEPT !.changes = Append(@, Change(st.current_section)),
                         !.in_change_section = FALSE]
         ELSE [st EXCEPT !.in_change_section = FALSE]
    ELSE [st EXCEPT !.in_change_section = TRUE,
                    !.current_section = Append(@, line)]

\* One iteration of the for loop over the lines.
ParseLine(st, line) ==
    IF IsMarker(line)
    THEN IF st.in_change_section /\ st.current_section # << >>
         THEN [st EXCEPT !.changes = Append(@, Change(st.current_section)),
                         !.current_section = << >>,
                         !.in_change_section = FALSE]
         ELSE [st EXCEPT !.in_change_section = FALSE]
    ELSE [st EXCEPT !.in_change_section = TRUE,
                    !.current_section = Append(@, line)]

RECURSIVE ParseLoop(_, _, _)
ParseLoop(st, lines, k) ==
    IF k > Len(lines) THEN st
    ELSE ParseLoop(ParseLine(st, lines[k]), lines, k + 1)

\* A return that forgets the section still open after the loop.
ParseFinishForgetting(st) == st.changes

\* The flush of the section still open after the loop, then return changes.
ParseFinish(st) ==
    IF st.current_section # << >>
    THEN Append(st.changes, Change(st.current_section))
    ELSE st.changes

parse_code_block(content) ==
    ParseFinish(ParseLoop(ParseStart, SplitLines(content), 1))

----------------------------------------------------------------------------
(* extract_code_blocks: re.finditer over the fence pattern, with DOTALL *)

\* The backquote character (the module syntax has no literal for it).
Backquote == "backquote"

Fence == << Backquote, Backquote, Backquote >>

StartsWith(s, i, pat) ==
    /\ i + Len(pat) - 1 <= Len(s)
    /\ SubSeq(s, i, i + Len(pat) - 1) = pat

\* Length of the longest run of characters of class from position i.
RECURSIVE RunLength(_, _, _)
RunLength(s, i, class) ==
    IF i <= Len(s) /\ s[i] \in class THEN 1 + RunLength(s, i + 1, class) ELSE 0

\* Length of the longest run of characters other than "\n" from position i.
RECURSIVE NonLFRun(_, _)
NonLFRun(s, i) ==
    IF i <= Len(s) /\ s[i] # LF THEN 1 + NonLFRun(s, i + 1) ELSE 0

\* First position >= i where a fence starts; 0 when there is none.
RECURSIVE FindFence(_, _)
FindFence(s, i) ==
    IF i + 2 > Len(s) THEN 0
    ELSE IF StartsWith(s, i, Fence) THEN i
    ELSE FindFence(s, i + 1)

\* CodeBlock(language, filepath, content); filepath is << >> for None and
\* << path >> for a matched group 2.
CodeBlock(language, filepath, content) ==
    [language |-> language, filepath |-> filepath, content |-> content]

\* The match of the pattern that starts at position i: [ok, end, block].
\* \w+ and [^\n]+ are greedy and a shorter match of either cannot be followed
\* by what the pattern needs next, so the greedy lengths are the only ones.
NoMatch == [ok |-> FALSE, end |-> 0, block |-> CodeBlock(<< >>, << >>, << >>)]

MatchAt(s, i) ==
    IF ~StartsWith(s, i, Fence) THEN NoMatch
    ELSE
      LET k == i + 3
          w == RunLength(s, k, WordChars)
          p == k + w
          r == IF p <= Len(s) /\ s[p] = ":" THEN NonLFRun(s, p + 1) ELSE 0
          withPath == /\ p <= Len(s) /\ s[p] = ":" /\ r >= 1
                      /\ p + 1 + r <= Len(s) /\ s[p + 1 + r] = LF
          noPath == p <= Len(s) /\ s[p] = LF
          b == IF withPath THEN p + 1 + r + 1 ELSE p + 1
          q == FindFence(s, b)
      IN  IF w = 0 \/ ~(withPath \/ noPath) \/ q = 0 THEN NoMatch
          ELSE [ok |-> TRUE, end |-> q + 3,
                block |-> CodeBlock(SubSeq(s, k, p - 1),
                                    IF withPath THEN << SubSeq(s, p + 1, p + r) >>
                                    ELSE << >>,
                                    Strip(SubSeq(s, b, q - 1)))]

\* finditer: leftmost match from pos on, then on from the end of that match.
RECURSIVE FindIter(_, _, _)
FindIter(s, pos, acc) ==
    IF pos > Len(s) THEN acc
    ELSE LET m == MatchAt(s, pos)
         IN  IF m.ok THEN FindIter(s, m.end, Append(acc, m.block))
             ELSE FindIter(s, pos + 1, acc)

extract_code_blocks(text) == FindIter(text, 1, << >>)

----------------------------------------------------------------------------
(* process_ai_output: dicts live in a heap and are held by reference *)

EmptyDict == [k \in {} |-> << >>]

\* d[k] = v
DictSet(d, k, v) == [x \in (DOMAIN d) \cup {k} |-> IF x = k THEN v ELSE d[x]]

\* A binding of the same dict object instead of a copy of it.
DictAlias(h, r) == [heap |-> h, ref |-> r]

\* files.copy(): a new dict object with the same items.
DictCopy(h, r) ==
    LET new == Cardinality(DOMAIN h) + 1
    IN  [heap |-> [x \in (DOMAIN h) \cup {new} |-> IF x = new THEN h[r] ELSE h[x]],
         ref |-> new]

\* "not block.filepath": None or the empty string.
NoFilepath(block) ==
    IF Len(block.filepath) = 0 THEN TRUE ELSE Len(block.filepath[1]) = 0

\* A new-file value that holds only the literal sections of the block.
NewFileSegmented(block) ==
    Join([k \in 1..Len(parse_code_block(block.content)) |->
             parse_code_block(block.content)[k].content])

\* modified_files[block.filepath] = block.content
NewFileValue(block) == block.content

\* A merge that starts every change from the content the block began with.
NextContentFromOriginal(cur, orig, change) ==
    IF change.action = "replace" THEN apply_diff(orig, change.content) ELSE cur

\* if action == 'replace': current_content = apply_diff(current_content, content)
NextContent(cur, orig, change) ==
    IF change.action = "replace" THEN apply_diff(cur, change.content) ELSE cur

----------------------------------------------------------------------------
(* Inputs *)

MergeAlphabet == {"A", "B", LF}

T_ABAC == << "A", LF, "B", LF, "A", LF, "C" >>
T_AX == << "A", LF, "X" >>
T_AXAC == << "A", LF, "X", LF, "A", LF, "C" >>
T_AC == << "A", LF, "C" >>
T_Hello == << "p", "r", "i", "n", "t", "(", "'", "H", "e", "l", "l", "o", "'", ")" >>
T_HelloWorld ==
    << "p", "r", "i", "n", "t", "(", "'", "H", "e", "l", "l", "o", ",", " ",
       "W", "o", "r", "l", "d", "!", "'", ")" >>

MergeExamples ==
    { << T_ABAC, T_AX >>, << T_ABAC, T_AC >>, << T_Hello, T_HelloWorld >>,
      << << "A", CR, LF, "B" >>, << "B", CR, LF, "X" >> >>,
      << << "A", LF, "B", LF, "C" >>, << "C", LF, "X", LF, "Y" >> >> }

MergeInputs ==
    (Texts(MergeAlphabet, MaxOrigLen) \X Texts(MergeAlphabet, MaxSegLen))
        \cup MergeExamples

ParseAlphabet == {"A", ".", " ", LF, CR}

T_L123 ==
    << "L", "1", LF, "/", "/", " ", ".", ".", ".", LF, "L", "2", LF,
       "/", "/", " ", ".", ".", ".", LF, "L", "3" >>

ParseExamples ==
    { T_L123, T_HelloWorld,
      << "/", "/", " ", ".", ".", ".", LF, "#", " ", ".", ".", "." >>,
      << "A", LF, "#", " ", "r", "e", "s", "t", " ", "o", "f", " ", "t", "h", "e",
         " ", "f", "i", "l", "e", LF, "B" >>,
      << "A", LF, "/", "/", " ", ".", ".", ".", ".", LF, "B" >>,
      << "A", LF, " ", "A", LF, " ", ".", ".", ".", LF, LF, "B", CR, LF,
         "#", " ", ".", ".", ".", LF, "C" >> }

ParseInputs == Texts(ParseAlphabet, MaxBodyLen) \cup ParseExamples

PathF == << "f", ".", "p", "y" >>
PathG == << "g" >>

FileContents ==
    { << "A" >>, << "A", LF, "B" >>, << "A", LF, "B", LF, "A", LF, "C", LF >> }

FileMaps ==
    {EmptyDict} \cup {PathF :> c : c \in FileContents}
        \cup {(PathF :> c) @@ (PathG :> << "A" >>) : c \in FileContents}
        \cup {PathF :> T_Hello}

BlockBodies ==
    { << "X" >>,
      << "A", LF, "X", LF, ".", ".", ".", LF, "X", LF, "Y" >>,
      << ".", ".", ".", LF, "C", LF, "#", " ", ".", ".", "." >>,
      << " ", "B", LF, "Z", LF >>,
      << "/", "/", " ", ".", ".", "." >> }

BlockShapes == {<< >>, << PathF >>, << PathG >>} \X BlockBodies

\* A fenced block as the documented syntax writes it.
RenderBlock(shape) ==
    Fence \o << "p", "y" >>
          \o (IF shape[1] = << >> THEN << >> ELSE << ":" >> \o shape[1][1])
          \o << LF >> \o shape[2] \o << LF >> \o Fence \o << LF >>

RECURSIVE RenderAll(_)
RenderAll(shapes) ==
    IF shapes = << >> THEN << "o", "k", LF >>
    ELSE << "H", "i", ":", LF >> \o RenderBlock(Head(shapes)) \o RenderAll(Tail(shapes))

OddOutputs ==
    { Fence \o << "p", "y", "t", "h", "o", "n", ":" >> \o PathF \o << LF >>
            \o T_HelloWorld \o << LF >> \o Fence,
      Fence \o << "p", "y", ":", "g", LF, "X", LF >>,
      Fence \o << ":", "g", LF, "X", LF >> \o Fence,
      Fence \o << "p", "y", ":", LF, "X", LF >> \o Fence \o << "p", "y", ":", "g", LF, "X" >> \o Fence,
      << Backquote >> \o Fence \o << "p", "y", ":", "g", CR, LF, "A", CR, LF, "X", CR, LF >> \o Fence }

AiOutputs ==
    {RenderAll(shapes) : shapes \in UNION {[1..k -> BlockShapes] : k \in 0..MaxBlocks}}
        \cup OddOutputs

----------------------------------------------------------------------------
(* The calls *)

MergeIdle ==
    /\ original_code = << >> /\ new_content = << >>
    /\ result_lines = << >> /\ result = << >>

ParseIdle == block_content = << >>

ProcIdle ==
    /\ ai_output = << >> /\ files = 0 /\ files_in = EmptyDict /\ heap = << >>
    /\ modified_files = 0 /\ code_blocks = << >> /\ block_idx = 0
    /\ change_idx = 0 /\ current_content = << >> /\ returned = 0

mergeVars == << original_code, new_content, result_lines, result >>
procVars == << ai_output, files, files_in, heap, modified_files, code_blocks,
               block_idx, change_idx, current_content, returned >>

(* apply_diff(original_code, new_content) *)

InitMerge ==
    /\ pc = "call"
    /\ \E input \in MergeInputs :
           original_code = input[1] /\ new_content = input[2]
    /\ result_lines = << >> /\ result = << >>
    /\ changes = << >>
    /\ ParseIdle /\ ProcIdle

CallApplyDiff ==
    /\ pc = "call"
    /\ result_lines' = apply_diff_lines(original_code, new_content)
    /\ result' = apply_diff(original_code, new_content)
    /\ pc' = "done"
    /\ UNCHANGED << original_code, new_content, block_content, changes, procVars >>

NextMerge == CallApplyDiff

SpecMerge == InitMerge /\ [][NextMerge]_vars

(* parse_code_block(block_content) *)

InitParse ==
    /\ pc = "call"
    /\ block_content \in ParseInputs
    /\ changes = << >>
    /\ MergeIdle /\ ProcIdle

CallParseCodeBlock ==
    /\ pc = "call"
    /\ changes' = parse_code_block(block_content)
    /\ pc' = "done"
    /\ UNCHANGED << block_content, mergeVars, procVars >>

NextParse == CallParseCodeBlock

SpecParse == InitParse /\ [][NextParse]_vars

(* process_ai_output(ai_output, files) *)

InitProc ==
    /\ pc = "start"
    /\ ai_output \in AiOutputs
    /\ files_in \in FileMaps
    /\ files = 1
    /\ heap = << files_in >>
    /\ modified_files = 0 /\ code_blocks = << >> /\ block_idx = 0
    /\ change_idx = 0 /\ current_content = << >> /\ returned = 0
    /\ changes = << >>
    /\ MergeIdle /\ ParseIdle

Block == code_blocks[block_idx + 1]

\* modified_files = files.copy(); code_blocks = extract_code_blocks(ai_output)
Begin ==
    /\ pc = "start"
    /\ LET c == DictCopy(heap, files)
       IN  heap' = c.heap /\ modified_files' = c.ref
    /\ code_blocks' = extract_code_blocks(ai_output)
    /\ block_idx' = 0
    /\ pc' = "blocks"
    /\ UNCHANGED << mergeVars, block_content, changes, ai_output, files, files_in,
                    change_idx, current_content, returned >>

\* if not block.filepath: continue
SkipBlock ==
    /\ pc = "blocks" /\ block_idx < Len(code_blocks)
    /\ NoFilepath(Block)
    /\ block_idx' = block_idx + 1
    /\ UNCHANGED << pc, mergeVars, block_content, changes, ai_output, files, files_in,
                    heap, modified_files, code_blocks, change_idx, current_content,
                    returned >>

\* if block.filepath not in modified_files: the new file
NewFile ==
    /\ pc = "blocks" /\ block_idx < Len(code_blocks)
    /\ ~NoFilepath(Block)
    /\ Block.filepath[1] \notin DOMAIN heap[modified_files]
    /\ heap' = [heap EXCEPT ![modified_files] =
                    DictSet(@, Block.filepath[1], NewFileValue(Block))]
    /\ block_idx' = block_idx + 1
    /\ UNCHANGED << pc, mergeVars, block_content, changes, ai_output, files, files_in,
                    modified_files, code_blocks, change_idx, current_content,
                    returned >>

\* original_content = modified_files[...]; changes = parse_code_block(...)
BeginMerge ==
    /\ pc = "blocks" /\ block_idx < Len(code_blocks)
    /\ ~NoFilepath(Block)
    /\ Block.filepath[1] \in DOMAIN heap[modified_files]
    /\ changes' = parse_code_block(Block.content)
    /\ current_content' = heap[modified_files][Block.filepath[1]]
    /\ change_idx' = 0
    /\ pc' = "changes"
    /\ UNCHANGED << mergeVars, block_content, ai_output, files, files_in, heap,
                    modified_files, code_blocks, block_idx, returned >>

\* for action, content, context in changes: one iteration
ApplyChange ==
    /\ pc = "changes" /\ change_idx < Len(changes)
    /\ current_content' =
           NextContent(current_content, heap[modified_files][Block.filepath[1]],
                       changes[change_idx + 1])
    /\ change_idx' = change_idx + 1
    /\ UNCHANGED << pc, mergeVars, block_content, changes, ai_output, files, files_in,
                    heap, modified_files, code_blocks, block_idx, returned >>

\* modified_files[block.filepath] = current_content
EndMerge ==
    /\ pc = "changes" /\ change_idx = Len(changes)
    /\ heap' = [heap EXCEPT ![modified_files] =
                    DictSet(@, Block.filepath[1], current_content)]
    /\ block_idx' = block_idx + 1
    /\ pc' = "blocks"
    /\ UNCHANGED << mergeVars, block_content, changes, ai_output, files, files_in,
                    modified_files, code_blocks, change_idx, current_content,
                    returned >>

\* return modified_files
Return ==
    /\ pc = "blocks" /\ block_idx = Len(code_blocks)
    /\ returned' = modified_files
    /\ pc' = "done"
    /\ UNCHANGED << mergeVars, block_content, changes, ai_output, files, files_in,
                    heap, modified_files, code_blocks, block_idx, change_idx,
                    current_content >>

NextProc ==
    \/ Begin
    \/ SkipBlock
    \/ NewFile
    \/ BeginMerge
    \/ ApplyChange
    \/ EndMerge
    \/ Return

SpecProc == InitProc /\ [][NextProc]_vars

----------------------------------------------------------------------------
(* Properties of apply_diff, under SpecMerge *)

OrigLines == SplitLines(original_code)
NewLines == SplitLines(new_content)

\* Some segment line occurs in the window [i, i + len(segment)) of the original.
WindowHas(i) ==
    \E j \in 1..Len(NewLines) :
        \E k \in (i + 1)..Min(i + Len(NewLines), Len(OrigLines)) :
            OrigLines[k] = NewLines[j]

Anchors == {i \in 0..(Len(OrigLines) - 1) : WindowHas(i)}

FirstAnchor == CHOOSE i \in Anchors : \A k \in Anchors : i <= k

\* The text with the window at index i replaced by all the segment lines.
SplicedAt(i) ==
    Join(SubSeq(OrigLines, 1, i) \o NewLines
            \o SubSeq(OrigLines, i + Len(NewLines) + 1, Len(OrigLines)))

\* The segment lines occur in the original as a contiguous, identical run.
OccursInPlace ==
    /\ Len(NewLines) >= 1
    /\ \E i \in 0..(Len(OrigLines) - Len(NewLines)) :
           \A k \in 1..Len(NewLines) : OrigLines[i + k] = NewLines[k]

\* C1: merging a segment whose lines already occur in the original as a
\* contiguous identical run, at some position, returns the original content.
C1_Idempotence ==
    (pc = "done" /\ OccursInPlace) => result = original_code

\* C3: when no start index has a segment line in its window, apply_diff
\* returns the original text itself, nothing appended and nothing removed,
\* also when the original ends with a line terminator.
C3_NoMatchIsIdentity ==
    (pc = "done" /\ Anchors = {}) => result = original_code

\* C4: the splice is at the lowest index whose window holds a segment line,
\* it replaces that window with all the segment lines, and it is the only
\* splice; "A\nB\nA\nC" merged with "A\nX" gives "A\nX\nA\nC".
C4_FirstMatchWins ==
    pc = "done" =>
        /\ Anchors # {} => result = SplicedAt(FirstAnchor)
        /\ (original_code = T_ABAC /\ new_content = T_AX) => result = T_AXAC

\* A later index also matches, would give another text, and is not used.
C4_Witness ==
    /\ pc = "done"
    /\ \E k \in Anchors :
           /\ k > FirstAnchor
           /\ SplicedAt(k) # SplicedAt(FirstAnchor)
           /\ Cardinality({j \in 1..Len(NewLines) :
                               \E x \in (k + 1)..Min(k + Len(NewLines), Len(OrigLines)) :
                                   OrigLines[x] = NewLines[j]}) = Len(NewLines)
    /\ result = SplicedAt(FirstAnchor)

----------------------------------------------------------------------------
(* Properties of parse_code_block, under SpecParse *)

BodyLines == SplitLines(block_content)

NonMarkerAt(k) == Strip(BodyLines[k]) \notin context_markers

NoMarkerLine == \A k \in 1..Len(BodyLines) : NonMarkerAt(k)

\* C7: a trimmed body without a marker line, the empty body included, gives
\* exactly one segment, whose text is the body.
C7_OneSegmentEvenIfEmpty ==
    (pc = "done" /\ block_content = Strip(block_content) /\ NoMarkerLine) =>
        /\ Len(changes) = 1
        /\ changes[1].content = block_content

\* C7 as amended: a non-empty body without a marker line gives exactly one
\* segment, whose text is the lines of the body joined by "\n", which is the
\* body itself when the body is trimmed and "\n" is its only line
\* terminator; the empty body gives no segment.
C7_OneSegmentIfNonEmpty ==
    pc = "done" =>
        /\ block_content = << >> => changes = << >>
        /\ (block_content # << >> /\ NoMarkerLine) =>
               /\ Len(changes) = 1
               /\ changes[1].content = Join(BodyLines)
               /\ (block_content = Strip(block_content) /\ CR \notin Range(block_content))
                      => changes[1].content = block_content

\* A trimmed body of several lines, none a marker, returned as one segment.
C7_Witness ==
    /\ pc = "done"
    /\ Len(BodyLines) >= 2 /\ NoMarkerLine
    /\ block_content = Strip(block_content) /\ CR \notin Range(block_content)
    /\ Len(changes) = 1 /\ changes[1].content = block_content

\* Line k starts a maximal run of non-marker lines.
RunStart(k) == NonMarkerAt(k) /\ (k = 1 \/ ~NonMarkerAt(k - 1))

RunStarts == {k \in 1..Len(BodyLines) : RunStart(k)}

\* The last line of the run that starts at line s.
RunEnd(s) ==
    CHOOSE e \in s..Len(BodyLines) :
        /\ \A k \in s..e : NonMarkerAt(k)
        /\ (e = Len(BodyLines) \/ ~NonMarkerAt(e + 1))

\* The start of the r-th run.
NthRunStart(r) == CHOOSE s \in RunStarts : Cardinality({t \in RunStarts : t <= s}) = r

\* C8: the segments are the maximal runs of consecutive non-marker lines, in
\* line order, each the lines of its run joined by "\n"; a body of marker
\* lines only gives the empty list; "L1\n// ...\nL2\n// ...\nL3" gives
\* L1, L2, L3.
C8_SegmentsAreMaximalRuns ==
    pc = "done" =>
        /\ Len(changes) = Cardinality(RunStarts)
        /\ \A r \in 1..Len(changes) :
               /\ changes[r].action = "replace"
               /\ changes[r].context = 3
               /\ changes[r].content =
                      Join(SubSeq(BodyLines, NthRunStart(r), RunEnd(NthRunStart(r))))
        /\ block_content = T_L123 =>
               << changes[1].content, changes[2].content, changes[3].content >>
                   = << << "L", "1" >>, << "L", "2" >>, << "L", "3" >> >>

\* Two runs of more than one line in all, parted by a marker line.
C8_Witness ==
    /\ pc = "done"
    /\ Len(changes) >= 2
    /\ \E k \in 1..Len(BodyLines) : ~NonMarkerAt(k)
    /\ \E r \in 1..Len(changes) : LF \in Range(changes[r].content)

----------------------------------------------------------------------------
(* Properties of process_ai_output, under SpecProc *)

IsSingleLine(text) == SplitLines(text) = << text >>

\* C2: a file of one line and one fenced block for its path whose content is
\* one other line: the returned map holds the line of the block for that
\* path, and apply_diff of the two lines returns the new line.
C2_SingleLineReplace ==
    pc = "done" =>
        \A p \in DOMAIN files_in :
            ( /\ Len(code_blocks) = 1
              /\ code_blocks[1].filepath = << p >>
              /\ IsSingleLine(files_in[p])
              /\ IsSingleLine(code_blocks[1].content)
              /\ ~IsMarker(code_blocks[1].content)
              /\ code_blocks[1].content # files_in[p] )
            => /\ heap[returned][p] = code_blocks[1].content
               /\ apply_diff(files_in[p], code_blocks[1].content) = code_blocks[1].content

\* C5: the map the caller passed keeps exactly its keys and values all
\* through the call, and the map returned is another object.
C5_InputMapUntouched ==
    /\ heap[files] = files_in
    /\ pc = "done" => returned # files

\* The call returned a map with a key added and a value rewritten.
C5_Witness ==
    /\ pc = "done"
    /\ \E p \in DOMAIN heap[returned] : p \notin DOMAIN files_in
    /\ \E p \in DOMAIN files_in : heap[returned][p] # files_in[p]
    /\ heap[files] = files_in

\* C6: a step at a block whose path is not a key of the current map sets
\* that path to the stripped body of the block as it is, marker lines
\* included, leaves the other entries alone, and goes on to the next block
\* without segmenting or merging.
C6_NewFileKeepsRawBody ==
    [][ ( /\ pc = "blocks" /\ block_idx < Len(code_blocks)
          /\ ~NoFilepath(Block)
          /\ Block.filepath[1] \notin DOMAIN heap[modified_files] )
        => ( /\ heap'[modified_files'] =
                    [x \in (DOMAIN heap[modified_files]) \cup {Block.filepath[1]} |->
                        IF x = Block.filepath[1] THEN Block.content
                        ELSE heap[modified_files][x]]
             /\ block_idx' = block_idx + 1
             /\ pc' = "blocks"
             /\ changes' = changes
             /\ current_content' = current_content ) ]_vars

\* The first block made a new file of a body that has a marker line.
C6_Witness ==
    /\ pc = "blocks" /\ block_idx = 1
    /\ ~NoFilepath(code_blocks[1])
    /\ code_blocks[1].filepath[1] \notin DOMAIN files_in
    /\ \E k \in 1..Len(SplitLines(code_blocks[1].content)) :
           IsMarker(SplitLines(code_blocks[1].content)[k])
    /\ \E k \in 1..Len(SplitLines(code_blocks[1].content)) :
           ~IsMarker(SplitLines(code_blocks[1].content)[k])
    /\ heap[modified_files][code_blocks[1].filepath[1]] = code_blocks[1].content

\* The left fold of apply_diff over the segments chs, from index k on.
RECURSIVE FoldChanges(_, _, _)
FoldChanges(text, chs, k) ==
    IF k > Len(chs) THEN text
    ELSE FoldChanges(apply_diff(text, chs[k].content), chs, k + 1)

\* The content of path p after the blocks from index k on: a block for p
\* makes the file of its body when there is none yet, and is folded in
\* segment by segment otherwise.
RECURSIVE FoldBlocks(_, _, _, _)
FoldBlocks(p, blocks, k, acc) ==
    IF k > Len(blocks) THEN acc
    ELSE IF blocks[k].filepath # << p >> THEN FoldBlocks(p, blocks, k + 1, acc)
    ELSE IF ~acc.have
    THEN FoldBlocks(p, blocks, k + 1, [have |-> TRUE, text |-> blocks[k].content])
    ELSE FoldBlocks(p, blocks, k + 1,
             [have |-> TRUE,
              text |-> FoldChanges(acc.text, parse_code_block(blocks[k].content), 1)])

TargetedPaths == {code_blocks[k].filepath[1] : k \in {j \in 1..Len(code_blocks) : ~NoFilepath(code_blocks[j])}}

\* C9: for each path the final content is the left fold of apply_diff over
\* the segments of the fragments for that path, in fragment order and in
\* segment order, from the input content of the path, or from the body of
\* the first such fragment when the path was absent.
C9_SequentialFold ==
    pc = "done" =>
        \A p \in (DOMAIN files_in) \cup (DOMAIN heap[returned]) \cup TargetedPaths :
            LET e == FoldBlocks(p, code_blocks, 1,
                         IF p \in DOMAIN files_in
                         THEN [have |-> TRUE, text |-> files_in[p]]
                         ELSE [have |-> FALSE, text |-> << >>])
            IN  /\ e.have <=> p \in DOMAIN heap[returned]
                /\ e.have => heap[returned][p] = e.text

\* Two fragments for one path of the input, one of several segments, and a
\* final content that neither the input nor the last fragment alone gives.
C9_Witness ==
    /\ pc = "done"
    /\ \E p \in DOMAIN files_in :
           /\ Cardinality({k \in 1..Len(code_blocks) : code_blocks[k].filepath = << p >>}) = 2
           /\ \E k \in 1..Len(code_blocks) :
                  /\ code_blocks[k].filepath = << p >>
                  /\ Len(parse_code_block(code_blocks[k].content)) >= 2
           /\ heap[returned][p] # files_in[p]
           /\ heap[returned][p] #
                  FoldChanges(files_in[p],
                      parse_code_block(code_blocks[Len(code_blocks)].content), 1)

====
